---- MODULE Spec2Model ----
(***************************************************************************)
(* Position accounting of the credit-line contract                         *)
(* (contracts/credit_line/src/lib.rs) together with the token ledger it    *)
(* calls (contracts/mock_usdc/src/lib.rs).                                 *)
(*                                                                         *)
(* The state is the ledger state: the contract's instance storage, its     *)
(* persistent storage (one position per user), the balances of the token   *)
(* contracts and the ledger timestamp.  A contract call is a function of   *)
(* that state and of its arguments, giving the call's result and the state *)
(* it leaves; one call is one atomic step.  Writes are modelled where the   *)
(* code makes them, so a call that fails after a write would show it.      *)
(*                                                                         *)
(* Amounts are small integers, far below the i128 range, so that no        *)
(* arithmetic of the contract overflows.                                   *)
(*                                                                         *)
(* Spec is the credit-line contract used by two users beside two funded    *)
(* tokens.  SpecToken is one token contract on its own, from deployment,   *)
(* with every mint and transfer.  SpecLimit gives the credit-limit         *)
(* arithmetic every collateral and ratio of a bounded range.               *)
(***************************************************************************)
EXTENDS Integers, FiniteSets, TLC

\* ------------------------------------------------------------------ bounds

\* Largest ledger timestamp the clock is advanced to.
MaxTime == 1

\* Largest amount offered to a call (the smallest offered is -1).
MaxAmount == 2

\* Units of token tA each user holds before the contract is used.
UserFunds == 2

\* Units of token tB the contract holds as its lending pool.
PoolFunds == 1

\* Largest total supply minted, and largest balance a transfer may raise an
\* account to, in the token ledger specification.
MaxSupply == 3

\* Largest collateral given to the credit-limit arithmetic.
MaxCollateral == 3

\* ------------------------------------------------------- program constants

LtvDefault == 7000

BpsDenominator == 10000

\* Largest number of decimals a token may be initialized with.
MaxDecimal == 18

\* ------------------------------------------------------------------ inputs

Users == {"u1", "u2"}

\* Address of the credit-line contract itself.
Contract == "cc"

Accounts == Users \cup {Contract}

\* Addresses of deployed token contracts (both run the token ledger code).
Tokens == {"tA", "tB"}

\* Amounts offered to the calls.
Amounts == -1 .. MaxAmount

\* instance, positions: the credit-line contract's instance and persistent
\* storage.  balance, token_instance: each token contract's balances and
\* instance storage (Admin, TotalSupply).  now: the ledger timestamp.
\* limit_sample: a collateral and a ratio given to the credit-limit
\* arithmetic, with the limits computed from them.
VARIABLES instance, positions, balance, now, token_instance, limit_sample

vars == <<instance, positions, balance, now, token_instance, limit_sample>>

\* The ledger state a call runs against.
Env == [instance |-> instance, positions |-> positions,
        balance |-> balance, now |-> now]

\* ----------------------------------------------------------------- storage

has(store, key) == key \in DOMAIN store

set(store, key, value) ==
    [k \in DOMAIN store \cup {key} |-> IF k = key THEN value ELSE store[k]]

\* get(key).unwrap_or(default)
get_or(store, key, default) == IF has(store, key) THEN store[key] ELSE default

\* ------------------------------------------------------------------- auth

\* Mutant: the authorization is not checked.
require_auth_skipped(signer, address) == TRUE

\* address.require_auth(): the call is authorized by address when address
\* signed it.
require_auth(signer, address) == signer = address

\* ------------------------------------------------------------ token ledger

\* TokenInterface::balance, Balance(id) with unwrap_or(0): the balances are
\* kept as a total function.
balance_of(bal, id) == bal[id]

\* Mutant: the sender is not debited.
transfer_credit_only(bal, from, to, amount, authorized) ==
    LET from_balance == balance_of(bal, from)
        to_balance == balance_of(bal, to)
    IN  IF ~authorized THEN [ok |-> FALSE, bal |-> bal]
        ELSE IF amount < 0 THEN [ok |-> FALSE, bal |-> bal]
        ELSE IF from_balance < amount THEN [ok |-> FALSE, bal |-> bal]
        ELSE [ok |-> TRUE, bal |-> [bal EXCEPT ![to] = to_balance + amount]]

\* UsdcToken::transfer on one token's balances.  authorized is the outcome of
\* from.require_auth().  The result is [ok, bal]; ok = FALSE is a trap.
transfer(bal, from, to, amount, authorized) ==
    LET from_balance == balance_of(bal, from)
        to_balance == balance_of(bal, to)
        afterFrom == [bal EXCEPT ![from] = from_balance - amount]
        afterTo == [afterFrom EXCEPT ![to] = to_balance + amount]
    IN  IF ~authorized THEN [ok |-> FALSE, bal |-> bal]
        ELSE IF amount < 0 THEN [ok |-> FALSE, bal |-> bal]
        ELSE IF from_balance < amount THEN [ok |-> FALSE, bal |-> bal]
        ELSE [ok |-> TRUE, bal |-> afterTo]

\* The instance storage of an initialized token contract.
TokenStorage(admin, total) == [Admin |-> admin, TotalSupply |-> total]

\* The admin of the two deployed tokens, an address that holds no tokens.
Issuer == "issuer"

\* A token contract call that traps, leaving the token state tok.
TokenTrap(tok) == [ok |-> FALSE, tok |-> tok]

\* UsdcToken::initialize on the token state tok = [storage, bal].  The
\* metadata (decimal, name, symbol) is stored and never read; it is left out.
token_initialize(tok, admin, decimal) ==
    IF has(tok.storage, "Admin") THEN TokenTrap(tok)
    ELSE IF decimal > MaxDecimal THEN TokenTrap(tok)
    ELSE [ok |-> TRUE,
          tok |-> [tok EXCEPT !.storage =
                     set(set(tok.storage, "Admin", admin), "TotalSupply", 0)]]

\* UsdcToken::mint.
mint(tok, signer, to, amount) ==
    IF ~has(tok.storage, "Admin") THEN TokenTrap(tok)
    ELSE IF ~require_auth(signer, tok.storage["Admin"]) THEN TokenTrap(tok)
    ELSE IF amount < 0 THEN TokenTrap(tok)
    ELSE
      LET to_balance == balance_of(tok.bal, to)
          credited == [tok EXCEPT !.bal[to] = to_balance + amount]
          total == get_or(tok.storage, "TotalSupply", 0)
      IN  [ok |-> TRUE,
           tok |-> [credited EXCEPT !.storage =
                      set(credited.storage, "TotalSupply", total + amount)]]

\* UsdcToken::transfer as a call on the token state.
token_transfer(tok, signer, from, to, amount) ==
    LET t == transfer(tok.bal, from, to, amount, require_auth(signer, from))
    IN  [ok |-> t.ok, tok |-> [tok EXCEPT !.bal = t.bal]]

\* --------------------------------------------------------------- arithmetic

\* i128 division: the quotient is truncated toward zero.
TruncDiv(a, b) == IF a >= 0 THEN a \div b ELSE -((-a) \div b)

\* Mutant: the limit is rounded up.
credit_limit_round_up(collateral, ltv) ==
    TruncDiv(collateral * ltv + BpsDenominator - 1, BpsDenominator)

\* Mutant: the limit is rounded to the nearest unit.
credit_limit_nearest(collateral, ltv) ==
    TruncDiv(collateral * ltv + (BpsDenominator \div 2), BpsDenominator)

\* (collateral * ltv_ratio as i128) / 10000
credit_limit(collateral, ltv) == TruncDiv(collateral * ltv, BpsDenominator)

\* instance().get(&DataKey::LtvRatio).unwrap_or(7000)
ltv_ratio(env) == get_or(env.instance, "LtvRatio", LtvDefault)

\* UserPosition { collateral: 0, borrowed: 0, last_update: timestamp() }
ZeroPosition(env) == [collateral |-> 0, borrowed |-> 0, last_update |-> env.now]

\* No sample has been given to the credit-limit arithmetic.
NoSample == << >>

\* ------------------------------------------------------------------- calls

\* enum Error: the structured error values a call can return.
ErrorCodes == {"NotInitialized", "AlreadyInitialized", "InsufficientCollateral",
               "ExceedsCreditLimit", "InsufficientBalance"}

\* Traps: a panic of the contract, a failed require_auth, a trap of the token
\* contract it calls.  A trap carries no error value of the contract.
Traps == {"PanicAmount", "PanicRepayExceeds", "AuthFailed", "TransferFailed"}

\* What a call gives: its result and the ledger state it leaves.
\* A call that returns Err or traps at a point where the ledger state is env.
Reject(env, result) == [result |-> result, env |-> env]

\* Mutant: an amount of 0 is let through.
amount_negative_only(amount) == amount < 0

\* if amount <= 0 { panic!("Amount must be positive") }
amount_not_positive(amount) == amount <= 0

\* Mutant: borrowing exactly up to the limit is refused.
exceeds_credit_limit_inclusive(position, amount, limit) ==
    position.borrowed + amount >= limit

\* if position.borrowed + amount > credit_limit
exceeds_credit_limit(position, amount, limit) ==
    position.borrowed + amount > limit

\* Mutant: the over-payment check is missing.
repay_exceeds_borrowed_unchecked(position, amount) == FALSE

\* if position.borrowed < amount { panic!(..) }
repay_exceeds_borrowed(position, amount) == position.borrowed < amount

\* Mutant: withdrawing the whole collateral is refused.
insufficient_balance_inclusive(position, amount) ==
    position.collateral <= amount

\* if position.collateral < amount
insufficient_balance(position, amount) == position.collateral < amount

\* Mutant: the solvency check of a withdrawal is missing.
insufficient_collateral_unchecked(position, limit) == FALSE

\* if position.borrowed > credit_limit
insufficient_collateral(position, limit) == position.borrowed > limit

\* Mutant: the position is written under every stored key.
Commit_every_user(env, token, bal, user, position) ==
    [result |-> "Ok",
     env |-> [env EXCEPT !.balance[token] = bal,
                         !.positions = [k \in DOMAIN env.positions \cup {user}
                                           |-> position]]]

\* A call that returns Ok after one token transfer and one position write.
Commit(env, token, bal, user, position) ==
    [result |-> "Ok",
     env |-> [env EXCEPT !.balance[token] = bal,
                         !.positions = set(env.positions, user, position)]]

\* Mutant: a stored configuration is overwritten.
initialize_overwrite(env, signer, admin, benji_token, usdc_token) ==
    [result |-> "Ok",
     env |-> [env EXCEPT !.instance =
                set(set(set(set(env.instance, "Admin", admin),
                            "BenjiToken", benji_token),
                        "UsdcToken", usdc_token),
                    "LtvRatio", LtvDefault)]]

initialize(env, signer, admin, benji_token, usdc_token) ==
    IF has(env.instance, "Admin")
    THEN Reject(env, "AlreadyInitialized")
    ELSE [result |-> "Ok",
          env |-> [env EXCEPT !.instance =
                     set(set(set(set(env.instance, "Admin", admin),
                                 "BenjiToken", benji_token),
                             "UsdcToken", usdc_token),
                         "LtvRatio", LtvDefault)]]

\* Mutant: the deposit replaces the stored collateral instead of adding to it.
deposit_collateral_replaces(env, signer, subAuth, user, amount) ==
    IF ~require_auth(signer, user) THEN Reject(env, "AuthFailed")
    ELSE IF amount_not_positive(amount) THEN Reject(env, "PanicAmount")
    ELSE IF ~has(env.instance, "BenjiToken") THEN Reject(env, "NotInitialized")
    ELSE
      LET benji_token == env.instance["BenjiToken"]
          t == transfer(env.balance[benji_token], user, Contract, amount,
                        subAuth)
          position == get_or(env.positions, user, ZeroPosition(env))
          updated == [position EXCEPT !.collateral = amount,
                                      !.last_update = env.now]
      IN  IF ~t.ok THEN Reject(env, "TransferFailed")
          ELSE Commit(env, benji_token, t.bal, user, updated)

\* Mutant: the position is written before the token transfer is made.
deposit_collateral_persist_first(env, signer, subAuth, user, amount) ==
    IF ~require_auth(signer, user) THEN Reject(env, "AuthFailed")
    ELSE IF amount_not_positive(amount) THEN Reject(env, "PanicAmount")
    ELSE IF ~has(env.instance, "BenjiToken") THEN Reject(env, "NotInitialized")
    ELSE
      LET benji_token == env.instance["BenjiToken"]
          position == get_or(env.positions, user, ZeroPosition(env))
          updated == [position EXCEPT !.collateral = @ + amount,
                                      !.last_update = env.now]
          written == [env EXCEPT !.positions = set(env.positions, user, updated)]
          t == transfer(env.balance[benji_token], user, Contract, amount,
                        subAuth)
      IN  IF ~t.ok THEN Reject(written, "TransferFailed")
          ELSE Commit(env, benji_token, t.bal, user, updated)

\* subAuth: whether the user's authorization covers the nested token transfer.
deposit_collateral(env, signer, subAuth, user, amount) ==
    IF ~require_auth(signer, user) THEN Reject(env, "AuthFailed")
    ELSE IF amount_not_positive(amount) THEN Reject(env, "PanicAmount")
    ELSE IF ~has(env.instance, "BenjiToken") THEN Reject(env, "NotInitialized")
    ELSE
      LET benji_token == env.instance["BenjiToken"]
          t == transfer(env.balance[benji_token], user, Contract, amount,
                        subAuth)
          position == get_or(env.positions, user, ZeroPosition(env))
          updated == [position EXCEPT !.collateral = @ + amount,
                                      !.last_update = env.now]
      IN  IF ~t.ok THEN Reject(env, "TransferFailed")
          ELSE Commit(env, benji_token, t.bal, user, updated)

\* Mutant: a missing position is read as a zero position.
borrow_default_position(env, signer, user, amount) ==
    IF ~require_auth(signer, user) THEN Reject(env, "AuthFailed")
    ELSE IF amount_not_positive(amount) THEN Reject(env, "PanicAmount")
    ELSE
      LET position == get_or(env.positions, user, ZeroPosition(env))
          limit == credit_limit(position.collateral, ltv_ratio(env))
      IN  IF exceeds_credit_limit(position, amount, limit)
          THEN Reject(env, "ExceedsCreditLimit")
          ELSE IF ~has(env.instance, "UsdcToken")
          THEN Reject(env, "NotInitialized")
          ELSE
            LET usdc_token == env.instance["UsdcToken"]
                t == transfer(env.balance[usdc_token], Contract, user, amount,
                              TRUE)
                updated == [position EXCEPT !.borrowed = @ + amount,
                                            !.last_update = env.now]
            IN  IF ~t.ok THEN Reject(env, "TransferFailed")
                ELSE Commit(env, usdc_token, t.bal, user, updated)

borrow(env, signer, user, amount) ==
    IF ~require_auth(signer, user) THEN Reject(env, "AuthFailed")
    ELSE IF amount_not_positive(amount) THEN Reject(env, "PanicAmount")
    ELSE IF ~has(env.positions, user) THEN Reject(env, "InsufficientCollateral")
    ELSE
      LET position == env.positions[user]
          limit == credit_limit(position.collateral, ltv_ratio(env))
      IN  IF exceeds_credit_limit(position, amount, limit)
          THEN Reject(env, "ExceedsCreditLimit")
          ELSE IF ~has(env.instance, "UsdcToken")
          THEN Reject(env, "NotInitialized")
          ELSE
            LET usdc_token == env.instance["UsdcToken"]
                t == transfer(env.balance[usdc_token], Contract, user, amount,
                              TRUE)
                updated == [position EXCEPT !.borrowed = @ + amount,
                                            !.last_update = env.now]
            IN  IF ~t.ok THEN Reject(env, "TransferFailed")
                ELSE Commit(env, usdc_token, t.bal, user, updated)

repay(env, signer, subAuth, user, amount) ==
    IF ~require_auth(signer, user) THEN Reject(env, "AuthFailed")
    ELSE IF amount_not_positive(amount) THEN Reject(env, "PanicAmount")
    ELSE IF ~has(env.positions, user) THEN Reject(env, "NotInitialized")
    ELSE
      LET position == env.positions[user]
      IN  IF repay_exceeds_borrowed(position, amount)
          THEN Reject(env, "PanicRepayExceeds")
          ELSE IF ~has(env.instance, "UsdcToken")
          THEN Reject(env, "NotInitialized")
          ELSE
            LET usdc_token == env.instance["UsdcToken"]
                t == transfer(env.balance[usdc_token], user, Contract, amount,
                              subAuth)
                updated == [position EXCEPT !.borrowed = @ - amount,
                                            !.last_update = env.now]
            IN  IF ~t.ok THEN Reject(env, "TransferFailed")
                ELSE Commit(env, usdc_token, t.bal, user, updated)

\* Mutant: a position left empty by the withdrawal is removed from storage.
withdraw_collateral_removes_empty(env, signer, user, amount) ==
    IF ~require_auth(signer, user) THEN Reject(env, "AuthFailed")
    ELSE IF amount_not_positive(amount) THEN Reject(env, "PanicAmount")
    ELSE IF ~has(env.positions, user) THEN Reject(env, "NotInitialized")
    ELSE
      LET position == env.positions[user]
          new_collateral == position.collateral - amount
          limit == credit_limit(new_collateral, ltv_ratio(env))
      IN  IF insufficient_balance(position, amount)
          THEN Reject(env, "InsufficientBalance")
          ELSE IF insufficient_collateral(position, limit)
          THEN Reject(env, "InsufficientCollateral")
          ELSE IF ~has(env.instance, "BenjiToken")
          THEN Reject(env, "NotInitialized")
          ELSE
            LET benji_token == env.instance["BenjiToken"]
                t == transfer(env.balance[benji_token], Contract, user, amount,
                              TRUE)
                updated == [position EXCEPT !.collateral = @ - amount,
                                            !.last_update = env.now]
                done == Commit(env, benji_token, t.bal, user, updated)
            IN  IF ~t.ok THEN Reject(env, "TransferFailed")
                ELSE IF new_collateral = 0 /\ position.borrowed = 0
                THEN [done EXCEPT !.env.positions =
                        [k \in DOMAIN done.env.positions \ {user} |->
                            done.env.positions[k]]]
                ELSE done

withdraw_collateral(env, signer, user, amount) ==
    IF ~require_auth(signer, user) THEN Reject(env, "AuthFailed")
    ELSE IF amount_not_positive(amount) THEN Reject(env, "PanicAmount")
    ELSE IF ~has(env.positions, user) THEN Reject(env, "NotInitialized")
    ELSE
      LET position == env.positions[user]
          new_collateral == position.collateral - amount
          limit == credit_limit(new_collateral, ltv_ratio(env))
      IN  IF insufficient_balance(position, amount)
          THEN Reject(env, "InsufficientBalance")
          ELSE IF insufficient_collateral(position, limit)
          THEN Reject(env, "InsufficientCollateral")
          ELSE IF ~has(env.instance, "BenjiToken")
          THEN Reject(env, "NotInitialized")
          ELSE
            LET benji_token == env.instance["BenjiToken"]
                t == transfer(env.balance[benji_token], Contract, user, amount,
                              TRUE)
                updated == [position EXCEPT !.collateral = @ - amount,
                                            !.last_update = env.now]
            IN  IF ~t.ok THEN Reject(env, "TransferFailed")
                ELSE Commit(env, benji_token, t.bal, user, updated)

\* ----------------------------------------------------------------- queries

get_position(env, user) == get_or(env.positions, user, ZeroPosition(env))

\* Mutant: the borrowed amount is not subtracted from the limit.
get_available_credit_ignores_borrowed(env, user) ==
    LET position == get_position(env, user)
        limit == credit_limit(position.collateral, ltv_ratio(env))
    IN  IF limit < 0 THEN 0 ELSE limit

get_available_credit(env, user) ==
    LET position == get_position(env, user)
        limit == credit_limit(position.collateral, ltv_ratio(env))
        available == limit - position.borrowed
    IN  IF available < 0 THEN 0 ELSE available

\* Mutant: the query stores the position it gives.
call_get_position_stores(env, signer, user) ==
    [result |-> get_position(env, user),
     env |-> [env EXCEPT !.positions =
                set(env.positions, user, get_position(env, user))]]

\* The entry point get_position as a call: it takes no authorization (signer
\* is whoever submits it), gives the position and writes nothing.
call_get_position(env, signer, user) ==
    [result |-> get_position(env, user), env |-> env]

\* The entry point get_available_credit as a call.
call_get_available_credit(env, signer, user) ==
    [result |-> get_available_credit(env, user), env |-> env]

\* ------------------------------------------------------------------- steps

\* The ledger takes the state a call leaves.
Apply(outcome) ==
    /\ instance' = outcome.env.instance
    /\ positions' = outcome.env.positions
    /\ balance' = outcome.env.balance
    /\ now' = outcome.env.now
    /\ UNCHANGED <<token_instance, limit_sample>>

Initialize ==
    \E signer \in Users, admin \in Users, benji_token \in Tokens,
       usdc_token \in Tokens :
        Apply(initialize(Env, signer, admin, benji_token, usdc_token))

Deposit ==
    \E signer \in Users, subAuth \in BOOLEAN, user \in Users,
       amount \in Amounts :
        Apply(deposit_collateral(Env, signer, subAuth, user, amount))

Borrow ==
    \E signer \in Users, user \in Users, amount \in Amounts :
        Apply(borrow(Env, signer, user, amount))

Repay ==
    \E signer \in Users, subAuth \in BOOLEAN, user \in Users,
       amount \in Amounts :
        Apply(repay(Env, signer, subAuth, user, amount))

Withdraw ==
    \E signer \in Users, user \in Users, amount \in Amounts :
        Apply(withdraw_collateral(Env, signer, user, amount))

GetPosition ==
    \E signer \in Users, user \in Users :
        Apply(call_get_position(Env, signer, user))

GetAvailableCredit ==
    \E signer \in Users, user \in Users :
        Apply(call_get_available_credit(Env, signer, user))

\* A user moves its own tokens to another user by calling the token contract
\* directly (the holder signs the call).
DirectTransfer ==
    \E token \in Tokens, from \in Users, amount \in Amounts :
        \E to \in Users \ {from} :
            LET t == transfer(balance[token], from, to, amount,
                              require_auth(from, from))
            IN  /\ balance' = [balance EXCEPT ![token] = t.bal]
                /\ UNCHANGED <<instance, positions, now, token_instance,
                               limit_sample>>

\* The ledger closes and its timestamp advances.
Tick ==
    /\ now < MaxTime
    /\ now' = now + 1
    /\ UNCHANGED <<instance, positions, balance, token_instance,
                   limit_sample>>

\* ----------------------------------------------------------- specification

\* A fresh credit-line contract beside two funded tokens: each user holds
\* UserFunds of token tA, and the contract holds PoolFunds of token tB, all
\* minted by the tokens' admin.
Init ==
    /\ instance = << >>
    /\ positions = << >>
    /\ balance = [t \in Tokens |-> [a \in Accounts |->
                     IF t = "tA"
                     THEN (IF a = Contract THEN 0 ELSE UserFunds)
                     ELSE (IF a = Contract THEN PoolFunds ELSE 0)]]
    /\ now = 0
    /\ token_instance = [t \in Tokens |->
                            IF t = "tA"
                            THEN TokenStorage(Issuer, 2 * UserFunds)
                            ELSE TokenStorage(Issuer, PoolFunds)]
    /\ limit_sample = NoSample

Next ==
    \/ Initialize
    \/ Deposit
    \/ Borrow
    \/ Repay
    \/ Withdraw
    \/ GetPosition
    \/ GetAvailableCredit
    \/ DirectTransfer
    \/ Tick

Spec == Init /\ [][Next]_vars

\* ------------------------------------------- specification: the token ledger

\* The token contract the ledger specification exercises (both tokens run the
\* same code).
LedgerToken == "tA"

\* The state of token contract t.
TokenState(t) == [storage |-> token_instance[t], bal |-> balance[t]]

\* Token contract t takes the state a call leaves.
ApplyToken(t, outcome) ==
    /\ token_instance' = [token_instance EXCEPT ![t] = outcome.tok.storage]
    /\ balance' = [balance EXCEPT ![t] = outcome.tok.bal]
    /\ UNCHANGED <<instance, positions, now, limit_sample>>

TokenInitialize ==
    \E admin \in Users, decimal \in {MaxDecimal, MaxDecimal + 1} :
        ApplyToken(LedgerToken,
                   token_initialize(TokenState(LedgerToken), admin, decimal))

\* The supply minted is kept within MaxSupply.
Mint ==
    \E signer \in Users, to \in Accounts, amount \in Amounts :
        /\ get_or(token_instance[LedgerToken], "TotalSupply", 0) + amount
               <= MaxSupply
        /\ ApplyToken(LedgerToken,
                      mint(TokenState(LedgerToken), signer, to, amount))

\* Any account, the contract's included, may send to any account, itself
\* included; the receiving balance is kept within MaxSupply.
Transfer ==
    \E signer \in Accounts, from \in Accounts, to \in Accounts,
       amount \in Amounts :
        /\ balance[LedgerToken][to] + amount <= MaxSupply
        /\ ApplyToken(LedgerToken,
                      token_transfer(TokenState(LedgerToken), signer, from, to,
                                     amount))

\* A token contract that is deployed and not yet initialized.
InitToken ==
    /\ instance = << >>
    /\ positions = << >>
    /\ balance = [t \in Tokens |-> [a \in Accounts |-> 0]]
    /\ now = 0
    /\ token_instance = [t \in Tokens |-> << >>]
    /\ limit_sample = NoSample

NextToken ==
    \/ TokenInitialize
    \/ Mint
    \/ Transfer

SpecToken == InitToken /\ [][NextToken]_vars

\* ---------------------------------- specification: the credit-limit arithmetic

\* The ratios given to the arithmetic: every number of basis points up to the
\* whole.
LtvRatios == 0 .. BpsDenominator

\* A configured contract whose stored ratio is ltv, with one position of u1
\* holding the given collateral and debt, and liquidity for any borrow.
SampleEnv(collateral, borrowed, ltv) ==
    [instance |-> [Admin |-> "u1", BenjiToken |-> "tA", UsdcToken |-> "tB",
                   LtvRatio |-> ltv],
     positions |-> [u \in {"u1"} |->
                      [collateral |-> collateral, borrowed |-> borrowed,
                       last_update |-> 0]],
     balance |-> [t \in Tokens |-> [a \in Accounts |->
                    IF a = Contract THEN collateral + 1 ELSE 0]],
     now |-> 0]

\* The limit borrow computes: the largest amount it does not refuse with
\* ExceedsCreditLimit on a debt-free position.
LimitInBorrow(c, ltv) ==
    Cardinality({a \in 1 .. c + 1 :
        borrow(SampleEnv(c, 0, ltv), "u1", "u1", a).result
            # "ExceedsCreditLimit"})

\* The limit withdraw_collateral computes for the collateral c that is left:
\* the largest debt with which it does not refuse with InsufficientCollateral.
LimitInWithdraw(c, ltv) ==
    Cardinality({b \in 1 .. c + 1 :
        withdraw_collateral(SampleEnv(c + 1, b, ltv), "u1", "u1", 1).result
            # "InsufficientCollateral"})

\* The limit get_available_credit computes: its result on a debt-free
\* position.
LimitInAvailableCredit(c, ltv) ==
    get_available_credit(SampleEnv(c, 0, ltv), "u1")

\* The three computations are made on the sample.
ComputeLimits ==
    /\ limit_sample.limits = << >>
    /\ limit_sample' =
           [limit_sample EXCEPT !.limits =
              [borrow |-> LimitInBorrow(limit_sample.collateral,
                                        limit_sample.ltv_ratio),
               withdraw |-> LimitInWithdraw(limit_sample.collateral,
                                            limit_sample.ltv_ratio),
               available |-> LimitInAvailableCredit(limit_sample.collateral,
                                                    limit_sample.ltv_ratio)]]
    /\ UNCHANGED <<instance, positions, balance, now, token_instance>>

\* Any collateral up to MaxCollateral with any ratio.
InitLimit ==
    /\ instance = << >>
    /\ positions = << >>
    /\ balance = [t \in Tokens |-> [a \in Accounts |-> 0]]
    /\ now = 0
    /\ token_instance = [t \in Tokens |-> << >>]
    /\ limit_sample \in [collateral : 0 .. MaxCollateral,
                          ltv_ratio : LtvRatios,
                          limits : {<< >>}]

NextLimit == ComputeLimits

SpecLimit == InitLimit /\ [][NextLimit]_vars

\* -------------------------------------------------------------- properties

\* floor(c * ltvRatio / 10000) with the configured ratio, as the specification
\* states it (\div rounds toward minus infinity).
FloorLimit(c) == (c * ltv_ratio(Env)) \div 10000

PositiveAmounts == {a \in Amounts : a > 0}

\* The contract is configured with two different token contracts.
DistinctAssets ==
    /\ has(instance, "Admin")
    /\ instance["BenjiToken"] # instance["UsdcToken"]

\* The ledger state of the worked examples: the contract initialized over two
\* distinct tokens, u1 holding 1000 of the collateral token and the contract
\* holding 1000 of the borrowed token.
ExampleFunded ==
    [initialize([instance |-> << >>, positions |-> << >>,
                 balance |-> [t \in Tokens |-> [a \in Accounts |-> 0]],
                 now |-> 0], "u1", "u1", "tA", "tB").env
        EXCEPT !.balance["tA"]["u1"] = 1000, !.balance["tB"][Contract] = 1000]

ExampleDeposited == deposit_collateral(ExampleFunded, "u1", TRUE, "u1", 1000).env

ExampleBorrowed == borrow(ExampleDeposited, "u1", "u1", 700).env

\* C1: every stored position has collateral >= 0 and
\* 0 <= borrowed <= floor(collateral * ltvRatio / 10000).
C1_Solvency ==
    \A u \in DOMAIN positions :
        /\ positions[u].collateral >= 0
        /\ positions[u].borrowed >= 0
        /\ positions[u].borrowed <= FloorLimit(positions[u].collateral)

\* A position borrowed up to its limit, on collateral whose limit is rounded
\* down, after a withdrawal attempt could no longer take anything out.
C1_Witness ==
    \E u \in DOMAIN positions :
        /\ positions[u].borrowed > 0
        /\ positions[u].borrowed = FloorLimit(positions[u].collateral)
        /\ positions[u].collateral * ltv_ratio(Env) % 10000 # 0

\* C2 as stated (here for two distinct assets): an authorized borrow of a
\* positive amount on an existing position is accepted exactly when
\* borrowed + amount <= the credit limit.
C2_AcceptedIffWithinLimit ==
    \A u \in DOMAIN positions, a \in PositiveAmounts :
        DistinctAssets =>
            ((borrow(Env, u, u, a).result = "Ok")
                <=> (positions[u].borrowed + a
                        <= FloorLimit(positions[u].collateral)))

\* C2 amended: the borrow fails with ExceedsCreditLimit exactly when
\* borrowed + amount exceeds the limit; within the limit it is accepted exactly
\* when the contract holds amount of the borrowed token, and otherwise the
\* transfer traps; every failure leaves the ledger state unchanged; acceptance
\* adds amount to borrowed, keeps collateral and moves amount of the borrowed
\* token from the contract to the user.  With collateral 1000: borrowing 700
\* succeeds, 701 fails with ExceedsCreditLimit, and after borrowing 700 the
\* available credit is 0.
C2_BorrowBoundary ==
    /\ \A u \in DOMAIN positions, a \in PositiveAmounts :
        LET p == positions[u]
            o == borrow(Env, u, u, a)
            usdc == instance["UsdcToken"]
            within == p.borrowed + a <= FloorLimit(p.collateral)
            funded == balance[usdc][Contract] >= a
        IN  /\ (o.result = "ExceedsCreditLimit") <=> ~within
            /\ (o.result = "Ok") <=> (within /\ funded)
            /\ (o.result = "TransferFailed") <=> (within /\ ~funded)
            /\ o.result # "Ok" => o.env = Env
            /\ o.result = "Ok" =>
                /\ o.env.positions[u].borrowed = p.borrowed + a
                /\ o.env.positions[u].collateral = p.collateral
                /\ \A v \in DOMAIN positions \ {u} :
                       o.env.positions[v] = positions[v]
                /\ o.env.balance[usdc][u] = balance[usdc][u] + a
                /\ o.env.balance[usdc][Contract] = balance[usdc][Contract] - a
    /\ borrow(ExampleDeposited, "u1", "u1", 700).result = "Ok"
    /\ borrow(ExampleDeposited, "u1", "u1", 701).result = "ExceedsCreditLimit"
    /\ borrow(ExampleDeposited, "u1", "u1", 701).env = ExampleDeposited
    /\ ExampleBorrowed.positions["u1"].borrowed = 700
    /\ get_available_credit(ExampleBorrowed, "u1") = 0

\* A user who has borrowed exactly up to the limit: one unit more is refused
\* with ExceedsCreditLimit and the available credit is 0.
C2_Witness ==
    \E u \in DOMAIN positions :
        /\ positions[u].borrowed > 0
        /\ positions[u].borrowed = FloorLimit(positions[u].collateral)
        /\ borrow(Env, u, u, 1).result = "ExceedsCreditLimit"
        /\ get_available_credit(Env, u) = 0

\* C3: an authorized withdrawal of a positive amount on an existing position
\* fails with InsufficientBalance when amount > collateral, otherwise with
\* InsufficientCollateral when borrowed > floor((collateral - amount) * ltv /
\* 10000), both leaving the ledger state unchanged; otherwise it succeeds,
\* collateral decreases by amount and borrowed is unchanged.  After deposit
\* 1000 and borrow 700, withdrawing 600 fails with InsufficientCollateral.
C3_WithdrawChecks ==
    /\ \A u \in DOMAIN positions, a \in PositiveAmounts :
        LET p == positions[u]
            o == withdraw_collateral(Env, u, u, a)
            benji == instance["BenjiToken"]
            tooMuch == a > p.collateral
            uncovered == p.borrowed > FloorLimit(p.collateral - a)
        IN  /\ (o.result = "InsufficientBalance") <=> tooMuch
            /\ (o.result = "InsufficientCollateral") <=> (~tooMuch /\ uncovered)
            /\ (o.result = "Ok") <=> (~tooMuch /\ ~uncovered)
            /\ o.result # "Ok" => o.env = Env
            /\ o.result = "Ok" =>
                /\ o.env.positions[u].collateral = p.collateral - a
                /\ o.env.positions[u].borrowed = p.borrowed
                /\ o.env.balance[benji][u] = balance[benji][u] + a
    /\ withdraw_collateral(ExampleBorrowed, "u1", "u1", 600).result
           = "InsufficientCollateral"
    /\ withdraw_collateral(ExampleBorrowed, "u1", "u1", 600).env = ExampleBorrowed
    /\ withdraw_collateral(ExampleBorrowed, "u1", "u1", 1001).result
           = "InsufficientBalance"

\* A borrower whose withdrawal within the collateral is refused with
\* InsufficientCollateral, while a larger one is refused with
\* InsufficientBalance.
C3_Witness ==
    \E u \in DOMAIN positions, a \in PositiveAmounts :
        /\ positions[u].borrowed > 0
        /\ a <= positions[u].collateral
        /\ withdraw_collateral(Env, u, u, a).result = "InsufficientCollateral"
        /\ withdraw_collateral(Env, u, u, positions[u].collateral + 1).result
               = "InsufficientBalance"

\* The example of a user who owes 500.
ExampleOwes500 == borrow(ExampleDeposited, "u1", "u1", 500).env

\* C4 as stated (here for two distinct assets): repaying more than is borrowed
\* traps and changes nothing, and repaying an amount in 1..borrowed succeeds.
C4_RepayUpToBorrowedSucceeds ==
    \A u \in DOMAIN positions, a \in PositiveAmounts :
        LET o == repay(Env, u, TRUE, u, a)
        IN  DistinctAssets =>
                IF a > positions[u].borrowed
                THEN o.result \in Traps /\ o.env = Env
                ELSE o.result = "Ok"

\* C4 amended: repaying more than is borrowed traps (no error value) and
\* leaves the ledger state unchanged; repaying an amount in 1..borrowed
\* succeeds exactly when the user holds that amount of the borrowed token and
\* has authorized its transfer, and otherwise the transfer traps and nothing
\* changes; a successful repay lowers borrowed by exactly amount, never below
\* 0, keeps collateral and moves amount from the user to the contract.  With
\* 500 borrowed, repay(600) traps and the position still owes 500.
C4_RepayBounds ==
    /\ \A u \in DOMAIN positions, a \in PositiveAmounts, subAuth \in BOOLEAN :
        LET p == positions[u]
            o == repay(Env, u, subAuth, u, a)
            usdc == instance["UsdcToken"]
            pays == subAuth /\ balance[usdc][u] >= a
        IN  /\ (o.result = "PanicRepayExceeds") <=> (a > p.borrowed)
            /\ (o.result = "Ok") <=> (a <= p.borrowed /\ pays)
            /\ (o.result = "TransferFailed") <=> (a <= p.borrowed /\ ~pays)
            /\ o.result # "Ok" =>
                o.result \in Traps /\ o.result \notin ErrorCodes /\ o.env = Env
            /\ o.result = "Ok" =>
                /\ o.env.positions[u].borrowed = p.borrowed - a
                /\ o.env.positions[u].borrowed >= 0
                /\ o.env.positions[u].collateral = p.collateral
                /\ o.env.positions[u].last_update = now
                /\ o.env.balance[usdc][u] = balance[usdc][u] - a
                /\ o.env.balance[usdc][Contract] = balance[usdc][Contract] + a
    /\ ExampleOwes500.positions["u1"].borrowed = 500
    /\ repay(ExampleOwes500, "u1", TRUE, "u1", 600).result = "PanicRepayExceeds"
    /\ repay(ExampleOwes500, "u1", TRUE, "u1", 600).env = ExampleOwes500
    /\ repay(ExampleOwes500, "u1", TRUE, "u1", 500).env.positions["u1"].borrowed
           = 0

\* A borrower who holds what it owes: repaying it all succeeds, and repaying
\* one unit more traps.
C4_Witness ==
    \E u \in DOMAIN positions :
        /\ positions[u].borrowed > 0
        /\ repay(Env, u, TRUE, u, positions[u].borrowed).result = "Ok"
        /\ repay(Env, u, TRUE, u, positions[u].borrowed + 1).result
               = "PanicRepayExceeds"

\* A call that failed on its token transfer left the ledger state unchanged,
\* and a call that wrote a position succeeded and moved tokens.
TransferThenPersist(o) ==
    /\ o.result = "TransferFailed" => o.env = Env
    /\ o.env.positions # positions => o.result = "Ok" /\ o.env.balance # balance

\* C5: when the token transfer of deposit, borrow, repay or withdraw fails, the
\* call aborts with positions and balances unchanged; a position is written
\* only by a call whose transfer succeeded.  The transfer of a deposit or a
\* repay fails when the user holds less than amount, that of a borrow when
\* the contract does.
C5_TransferFailureAtomic ==
    /\ \A s \in Users, u \in Users, a \in Amounts :
        /\ \A sa \in BOOLEAN :
            /\ TransferThenPersist(deposit_collateral(Env, s, sa, u, a))
            /\ TransferThenPersist(repay(Env, s, sa, u, a))
        /\ TransferThenPersist(borrow(Env, s, u, a))
        /\ TransferThenPersist(withdraw_collateral(Env, s, u, a))
    /\ \A u \in Users, a \in PositiveAmounts :
        /\ (has(instance, "BenjiToken") /\ balance[instance["BenjiToken"]][u] < a)
            => deposit_collateral(Env, u, TRUE, u, a).result = "TransferFailed"
        /\ (has(positions, u) /\ a <= positions[u].borrowed
                /\ balance[instance["UsdcToken"]][u] < a)
            => repay(Env, u, TRUE, u, a).result = "TransferFailed"
        /\ (has(positions, u)
                /\ positions[u].borrowed + a <= FloorLimit(positions[u].collateral)
                /\ balance[instance["UsdcToken"]][Contract] < a)
            => borrow(Env, u, u, a).result = "TransferFailed"

\* A state in which a deposit, a borrow and a repay each fail on the transfer
\* for want of balance.
C5_Witness ==
    /\ \E u \in Users, a \in PositiveAmounts :
        deposit_collateral(Env, u, TRUE, u, a).result = "TransferFailed"
    /\ \E u \in Users, a \in PositiveAmounts :
        borrow(Env, u, u, a).result = "TransferFailed"
    /\ \E u \in Users, a \in PositiveAmounts :
        repay(Env, u, TRUE, u, a).result = "TransferFailed"

\* C6: a call of deposit, borrow, repay or withdraw that the user did not
\* authorize is rejected on the authorization alone, whatever the amount and
\* whether or not the configuration or the position exists, and changes
\* nothing.
C6_UnauthorizedRejected ==
    \A s \in Users, u \in Users, a \in Amounts, sa \in BOOLEAN :
      s # u =>
        /\ deposit_collateral(Env, s, sa, u, a) = Reject(Env, "AuthFailed")
        /\ borrow(Env, s, u, a) = Reject(Env, "AuthFailed")
        /\ repay(Env, s, sa, u, a) = Reject(Env, "AuthFailed")
        /\ withdraw_collateral(Env, s, u, a) = Reject(Env, "AuthFailed")

\* A state in which every one of the four operations would succeed for some
\* user when that user signs, and is rejected when the other user signs.
C6_Witness ==
    \E s \in Users, u \in Users, a \in PositiveAmounts :
        /\ s # u
        /\ deposit_collateral(Env, u, TRUE, u, a).result = "Ok"
        /\ borrow(Env, u, u, a).result = "Ok"
        /\ repay(Env, u, TRUE, u, a).result = "Ok"
        /\ withdraw_collateral(Env, u, u, a).result = "Ok"
        /\ borrow(Env, s, u, a).result = "AuthFailed"

\* C7: an authorized call of deposit, borrow, repay or withdraw with
\* amount <= 0 traps (no error value of the contract) and changes nothing,
\* whether or not the configuration or the position exists.
C7_NonPositiveAmountTraps ==
    \A u \in Users, a \in {x \in Amounts : x <= 0}, sa \in BOOLEAN :
        /\ "PanicAmount" \in Traps \ ErrorCodes
        /\ deposit_collateral(Env, u, sa, u, a) = Reject(Env, "PanicAmount")
        /\ borrow(Env, u, u, a) = Reject(Env, "PanicAmount")
        /\ repay(Env, u, sa, u, a) = Reject(Env, "PanicAmount")
        /\ withdraw_collateral(Env, u, u, a) = Reject(Env, "PanicAmount")

\* An initialized contract where one user has a funded, borrowing position
\* and the other has none.
C7_Witness ==
    /\ has(instance, "Admin")
    /\ \E u \in Users :
        /\ has(positions, u) /\ positions[u].borrowed > 0
        /\ \E v \in Users : ~has(positions, v)
        /\ withdraw_collateral(Env, u, u, 0).result = "PanicAmount"

\* The four configuration values an initialize call stores.
StoredConfig(admin, benji_token, usdc_token) ==
    [Admin |-> admin, BenjiToken |-> benji_token, UsdcToken |-> usdc_token,
     LtvRatio |-> 7000]

\* What initialize does in the current state: the first call stores the
\* configuration with ltvRatio 7000 and nothing else; with a configuration
\* stored, every call fails with AlreadyInitialized and changes nothing.
InitializeOnce ==
    \A s \in Users, admin \in Users, b \in Tokens, t \in Tokens :
        LET o == initialize(Env, s, admin, b, t)
        IN  IF instance = << >>
            THEN /\ o.result = "Ok"
                 /\ o.env = [Env EXCEPT !.instance = StoredConfig(admin, b, t)]
            ELSE /\ \E a \in Users, cb \in Tokens, ct \in Tokens :
                        instance = StoredConfig(a, cb, ct)
                 /\ o = Reject(Env, "AlreadyInitialized")

\* C8: the configuration is set exactly once: the first initialize stores
\* admin, both assets and ltvRatio = 7000, every later initialize fails with
\* AlreadyInitialized, and once stored no step changes the configuration.
C8_ConfigSetOnce ==
    /\ []InitializeOnce
    /\ [][instance # << >> => instance' = instance]_vars

\* A configured contract on which deposits and borrows have since been made.
C8_Witness ==
    /\ \E b \in Tokens, t \in Tokens : instance = StoredConfig("u2", b, t)
    /\ \E u \in DOMAIN positions : positions[u].borrowed > 0
    /\ initialize(Env, "u1", "u1", "tA", "tB").result = "AlreadyInitialized"

\* C9: an initialize call that the named admin did not authorize is rejected
\* and stores no configuration.
C9_InitializeRequiresAdminAuth ==
    \A s \in Users, admin \in Users, b \in Tokens, t \in Tokens :
        ~require_auth(s, admin) =>
            LET o == initialize(Env, s, admin, b, t)
            IN  o.result # "Ok" /\ o.env.instance = instance

\* The ledger state after user u has repaid all it owes and then withdrawn all
\* its collateral, each step skipped when the amount is 0, with the results of
\* the two steps.
ExitOf(env, u) ==
    LET p == env.positions[u]
        r == IF p.borrowed > 0
             THEN repay(env, u, TRUE, u, p.borrowed)
             ELSE [result |-> "Ok", env |-> env]
        w == IF p.collateral > 0
             THEN withdraw_collateral(r.env, u, u, p.collateral)
             ELSE [result |-> "Ok", env |-> r.env]
    IN  [repaid |-> r, withdrawn |-> w]

\* C10: in every reachable state, a user with position {c, b} who holds at
\* least b of the borrowed token can repay b and then withdraw c: both calls
\* succeed, the position ends {collateral: 0, borrowed: 0} and the withdrawal
\* returns c collateral tokens to the user.  Deposit 1000, borrow 700, repay
\* 700, withdraw 1000 ends at {0, 0}.
C10_CanAlwaysExit ==
    /\ \A u \in DOMAIN positions :
        LET p == positions[u]
            x == ExitOf(Env, u)
            benji == instance["BenjiToken"]
        IN  balance[instance["UsdcToken"]][u] >= p.borrowed =>
                /\ x.repaid.result = "Ok"
                /\ x.withdrawn.result = "Ok"
                /\ x.withdrawn.env.positions[u].collateral = 0
                /\ x.withdrawn.env.positions[u].borrowed = 0
                /\ x.withdrawn.env.balance[benji][u]
                       = x.repaid.env.balance[benji][u] + p.collateral
    /\ ExampleBorrowed.positions["u1"].collateral = 1000
    /\ ExampleBorrowed.positions["u1"].borrowed = 700
    /\ ExitOf(ExampleBorrowed, "u1").repaid.result = "Ok"
    /\ ExitOf(ExampleBorrowed, "u1").withdrawn.result = "Ok"
    /\ ExitOf(ExampleBorrowed, "u1").withdrawn.env.positions["u1"].collateral = 0
    /\ ExitOf(ExampleBorrowed, "u1").withdrawn.env.positions["u1"].borrowed = 0
    /\ ExitOf(ExampleBorrowed, "u1").withdrawn.env.balance["tA"]["u1"] = 1000

\* A borrower at its credit limit who holds what it owes, while the other
\* user borrows too: the exit needs both the repay and the withdrawal.
C10_Witness ==
    \E u \in DOMAIN positions, v \in DOMAIN positions :
        /\ u # v
        /\ positions[v].borrowed > 0
        /\ positions[u].borrowed > 0
        /\ positions[u].borrowed = FloorLimit(positions[u].collateral)
        /\ balance[instance["UsdcToken"]][u] >= positions[u].borrowed
        /\ withdraw_collateral(Env, u, u, positions[u].collateral).result
               = "InsufficientCollateral"

\* What a deposit of a by user u does to the user's available credit: the
\* outcome of the call, and the credit before and after it.
CreditAcrossDeposit(u, a) ==
    LET o == deposit_collateral(Env, u, TRUE, u, a)
    IN  [result |-> o.result,
         before |-> get_available_credit(Env, u),
         after |-> get_available_credit(o.env, u)]

\* C11 as stated: for a user with borrowed = 0, a successful deposit of a > 0
\* strictly increases the available credit, and the increase equals
\* floor(a * ltv / 10000).
C11_DepositAddsFloorOfAmount ==
    \A u \in Users, a \in PositiveAmounts :
        LET d == CreditAcrossDeposit(u, a)
        IN  (get_position(Env, u).borrowed = 0 /\ d.result = "Ok") =>
                /\ d.after > d.before
                /\ d.after - d.before = FloorLimit(a)

\* C11 amended: for a user with borrowed = 0 and collateral c, a successful
\* deposit of a > 0 never lowers the available credit: it goes from
\* floor(c * ltv / 10000) to floor((c + a) * ltv / 10000), an increase of
\* floor(a * ltv / 10000) or one more, which is strict whenever
\* a * ltv >= 10000.  The deposit adds exactly a to the collateral.
C11_DepositMonotone ==
    \A u \in Users, a \in PositiveAmounts :
        LET d == CreditAcrossDeposit(u, a)
            c == get_position(Env, u).collateral
        IN  (get_position(Env, u).borrowed = 0 /\ d.result = "Ok") =>
                /\ d.before = FloorLimit(c)
                /\ d.after = FloorLimit(c + a)
                /\ d.after >= d.before
                /\ d.after - d.before \in {FloorLimit(a), FloorLimit(a) + 1}
                /\ a * ltv_ratio(Env) >= 10000 => d.after > d.before
                /\ deposit_collateral(Env, u, TRUE, u, a).env.positions[u].collateral
                       = c + a

\* A debt-free user holding collateral whose next deposit of one unit raises
\* the credit by one although floor(1 * ltv / 10000) = 0, while a first
\* deposit of one unit by the other user would raise the credit by nothing.
C11_Witness ==
    \E u \in DOMAIN positions, v \in Users :
        /\ positions[u].collateral > 0
        /\ positions[u].borrowed = 0
        /\ CreditAcrossDeposit(u, 1).result = "Ok"
        /\ CreditAcrossDeposit(u, 1).after = CreditAcrossDeposit(u, 1).before + 1
        /\ FloorLimit(1) = 0
        /\ ~has(positions, v)
        /\ CreditAcrossDeposit(v, 1).result = "Ok"
        /\ CreditAcrossDeposit(v, 1).after = CreditAcrossDeposit(v, 1).before

\* The results of a borrow that got past the credit-limit check.
PastLimitCheck == {"Ok", "TransferFailed"}

\* C12: for every user, get_available_credit returns
\* max(0, floor(collateral * ltvRatio / 10000) - borrowed), which is never
\* negative, and an authorized borrow of a > 0 gets past the credit-limit
\* check exactly when a <= get_available_credit(user); on an existing position
\* it fails with ExceedsCreditLimit exactly when a is larger.
C12_AvailableCredit ==
    \A u \in Users :
        LET p == get_position(Env, u)
            free == FloorLimit(p.collateral) - p.borrowed
            credit == get_available_credit(Env, u)
        IN  /\ credit = IF free > 0 THEN free ELSE 0
            /\ credit >= 0
            /\ \A a \in PositiveAmounts :
                /\ (borrow(Env, u, u, a).result \in PastLimitCheck)
                       <=> (a <= credit)
                /\ has(positions, u) =>
                       ((borrow(Env, u, u, a).result = "ExceedsCreditLimit")
                           <=> (a > credit))

\* A borrower with credit left: borrowing what is left gets past the check,
\* borrowing one unit more is refused with ExceedsCreditLimit.
C12_Witness ==
    \E u \in DOMAIN positions :
        /\ positions[u].borrowed > 0
        /\ get_available_credit(Env, u) > 0
        /\ borrow(Env, u, u, get_available_credit(Env, u)).result
               \in PastLimitCheck
        /\ borrow(Env, u, u, get_available_credit(Env, u) + 1).result
               = "ExceedsCreditLimit"

\* C13: get_position and get_available_credit, whoever submits them, give the
\* stored position and its available credit, and for a user without a stored
\* position a position with collateral 0 and borrowed 0 and the credit 0;
\* they leave the positions (no entry is stored for the user), the
\* configuration and the token balances unchanged.
C13_QueriesReadOnly ==
    \A s \in Users, u \in Users :
        LET qp == call_get_position(Env, s, u)
            qc == call_get_available_credit(Env, s, u)
        IN  /\ qp.env = Env
            /\ qc.env = Env
            /\ has(qp.env.positions, u) <=> has(positions, u)
            /\ has(qc.env.positions, u) <=> has(positions, u)
            /\ has(positions, u) => qp.result = positions[u]
            /\ ~has(positions, u) =>
                /\ qp.result.collateral = 0
                /\ qp.result.borrowed = 0
                /\ qc.result = 0
            /\ qc.result = get_available_credit(Env, u)

\* A configured contract where one user has collateral and credit and the
\* other was never seen: the queries answer for both, whoever asks.
C13_Witness ==
    \E u \in Users, v \in Users :
        /\ has(instance, "Admin")
        /\ has(positions, u)
        /\ ~has(positions, v)
        /\ call_get_available_credit(Env, v, u).result > 0
        /\ call_get_available_credit(Env, u, v).result = 0
        /\ call_get_position(Env, u, v).result.collateral = 0

\* The call o made for user u left every other user's stored position and
\* token balances as they were; a failed call left everything as it was.
OthersUntouched(o, u) ==
    IF o.result # "Ok" THEN o.env = Env
    ELSE \A v \in Users \ {u} :
            /\ has(o.env.positions, v) <=> has(positions, v)
            /\ has(positions, v) => o.env.positions[v] = positions[v]
            /\ \A t \in Tokens : o.env.balance[t][v] = balance[t][v]

\* What user v gets from call c: the result and the position it leaves to v.
OutcomeFor(c, v) ==
    [result |-> c.result, position |-> get_position(c.env, v)]

\* What user v gets from a deposit, a repay, a withdrawal and a borrow of b in
\* the ledger state env.
OutcomesIn(env, v, b) ==
    [deposit |-> OutcomeFor(deposit_collateral(env, v, TRUE, v, b), v),
     repay |-> OutcomeFor(repay(env, v, TRUE, v, b), v),
     withdraw |-> OutcomeFor(withdraw_collateral(env, v, v, b), v),
     borrow |-> OutcomeFor(borrow(env, v, v, b), v)]

\* The outcomes now and later of v's calls are the same, except that of the
\* two borrows one may fail on the liquidity the contract holds.
SameOutcomes(current, later) ==
    /\ later.deposit = current.deposit
    /\ later.repay = current.repay
    /\ later.withdraw = current.withdraw
    /\ \/ later.borrow = current.borrow
       \/ "TransferFailed" \in {later.borrow.result, current.borrow.result}

\* The successful call o of user u changes no outcome of another user's
\* calls, a borrow's through the contract's liquidity apart.
SameOutcomesAfter(o, u) ==
    o.result = "Ok" =>
        \A v \in Users \ {u}, b \in PositiveAmounts :
            SameOutcomes(OutcomesIn(Env, v, b), OutcomesIn(o.env, v, b))

\* C14: a call of deposit, borrow, repay or withdraw made for user u,
\* successful or failing, leaves the stored position and the token balances of
\* every other user unchanged, and the outcome of another user's own calls is
\* the same before and after it, except that a borrow may find the contract's
\* pool of the borrowed token changed.
C14_CrossUserIndependence ==
    \A u \in Users, a \in Amounts :
        LET d == deposit_collateral(Env, u, TRUE, u, a)
            r == repay(Env, u, TRUE, u, a)
            b == borrow(Env, u, u, a)
            w == withdraw_collateral(Env, u, u, a)
        IN  /\ OthersUntouched(d, u) /\ SameOutcomesAfter(d, u)
            /\ OthersUntouched(r, u) /\ SameOutcomesAfter(r, u)
            /\ OthersUntouched(b, u) /\ SameOutcomesAfter(b, u)
            /\ OthersUntouched(w, u) /\ SameOutcomesAfter(w, u)
            /\ OthersUntouched(deposit_collateral(Env, u, FALSE, u, a), u)
            /\ OthersUntouched(repay(Env, u, FALSE, u, a), u)

\* Two users with different stored positions, one of them a borrower whose
\* repay succeeds, the other able to withdraw.
C14_Witness ==
    \E u \in DOMAIN positions, v \in DOMAIN positions :
        /\ u # v
        /\ positions[u].collateral # positions[v].collateral
        /\ positions[u].borrowed > 0
        /\ repay(Env, u, TRUE, u, 1).result = "Ok"
        /\ withdraw_collateral(Env, v, v, 1).result = "Ok"

\* The sum of one field over all stored positions.
TotalOf(field) ==
    LET RECURSIVE sum(_)
        sum(S) == IF S = {} THEN 0
                  ELSE LET u == CHOOSE x \in S : TRUE
                       IN  positions[u][field] + sum(S \ {u})
    IN  sum(DOMAIN positions)

\* What the contract held of a token before it was used.
InitialFunding(token) == IF token = "tA" THEN 0 ELSE PoolFunds

\* The balances after amount of token has moved from one account to another.
Moved(token, from, to, amount) ==
    [balance EXCEPT ![token][from] = @ - amount, ![token][to] = @ + amount]

\* C15: with two distinct assets and no token sent to or from the contract
\* other than by its own calls, the contract's balance of the collateral asset
\* is what it held at the start (nothing, when the collateral asset is the
\* one the contract was not funded with) plus the sum of collateral over the
\* stored positions, and its balance of the borrowed asset is its initial
\* funding minus the sum of borrowed; a successful deposit, borrow, repay or
\* withdraw moves exactly amount between the user and the contract on its
\* asset and no other balance.
C15_CustodyConservation ==
    DistinctAssets =>
        LET benji == instance["BenjiToken"]
            usdc == instance["UsdcToken"]
        IN  /\ balance[benji][Contract]
                   = InitialFunding(benji) + TotalOf("collateral")
            /\ InitialFunding(benji) = 0 =>
                   balance[benji][Contract] = TotalOf("collateral")
            /\ balance[usdc][Contract]
                   = InitialFunding(usdc) - TotalOf("borrowed")
            /\ \A u \in Users, a \in PositiveAmounts :
                LET d == deposit_collateral(Env, u, TRUE, u, a)
                    b == borrow(Env, u, u, a)
                    r == repay(Env, u, TRUE, u, a)
                    w == withdraw_collateral(Env, u, u, a)
                IN  /\ d.result = "Ok" =>
                        d.env.balance = Moved(benji, u, Contract, a)
                    /\ b.result = "Ok" =>
                        b.env.balance = Moved(usdc, Contract, u, a)
                    /\ r.result = "Ok" =>
                        r.env.balance = Moved(usdc, u, Contract, a)
                    /\ w.result = "Ok" =>
                        w.env.balance = Moved(benji, Contract, u, a)

\* Both users hold collateral in the contract, which was funded with the
\* borrowed asset only and has lent from it.
C15_Witness ==
    /\ DistinctAssets
    /\ InitialFunding(instance["BenjiToken"]) = 0
    /\ DOMAIN positions = Users
    /\ \A u \in Users : positions[u].collateral > 0
    /\ TotalOf("borrowed") > 0
    /\ balance[instance["BenjiToken"]][Contract] = TotalOf("collateral")

\* The sum of the balances bal over all accounts.
SumOfBalances(bal) ==
    LET RECURSIVE sum(_)
        sum(S) == IF S = {} THEN 0
                  ELSE LET a == CHOOSE x \in S : TRUE
                       IN  bal[a] + sum(S \ {a})
    IN  sum(Accounts)

\* C16: in the token ledger, after any mint and transfer calls, the stored
\* TotalSupply equals the sum of all balances and no balance is negative; an
\* authorized transfer, from any account to any account (the same one
\* included), fails and changes no balance when the sender holds less than
\* amount, and when it succeeds it leaves the sum of the balances unchanged.
C16_SupplyConserved ==
    LET bal == balance[LedgerToken]
    IN  /\ get_or(token_instance[LedgerToken], "TotalSupply", 0)
               = SumOfBalances(bal)
        /\ \A a \in Accounts : bal[a] >= 0
        /\ \A from \in Accounts, to \in Accounts, amount \in Amounts :
            LET t == token_transfer(TokenState(LedgerToken), from, from, to,
                                    amount)
            IN  /\ bal[from] < amount => ~t.ok /\ t.tok.bal = bal
                /\ t.ok => SumOfBalances(t.tok.bal) = SumOfBalances(bal)

\* The ledger state after user u has been queried with get_position and
\* get_available_credit.
AfterQueries(u) ==
    call_get_available_credit(call_get_position(Env, u, u).env, u, u).env

\* C17: for a user without a stored position and amount > 0, borrow fails with
\* InsufficientCollateral, repay and withdraw fail with NotInitialized, and
\* none of them stores a position or moves tokens, whether or not the
\* contract is configured and also after the user has been queried.  For a
\* stored position with collateral 0, borrow fails with ExceedsCreditLimit.
C17_MissingPosition ==
    \A u \in Users, a \in PositiveAmounts :
        /\ ~has(positions, u) =>
            /\ borrow(Env, u, u, a) = Reject(Env, "InsufficientCollateral")
            /\ \A sa \in BOOLEAN :
                   repay(Env, u, sa, u, a) = Reject(Env, "NotInitialized")
            /\ withdraw_collateral(Env, u, u, a)
                   = Reject(Env, "NotInitialized")
            /\ ~has(AfterQueries(u).positions, u)
            /\ borrow(AfterQueries(u), u, u, a)
                   = Reject(Env, "InsufficientCollateral")
            /\ repay(AfterQueries(u), u, TRUE, u, a)
                   = Reject(Env, "NotInitialized")
            /\ withdraw_collateral(AfterQueries(u), u, u, a)
                   = Reject(Env, "NotInitialized")
        /\ (has(positions, u) /\ positions[u].collateral = 0) =>
            borrow(Env, u, u, a) = Reject(Env, "ExceedsCreditLimit")

\* One user has withdrawn all it deposited, the other never deposited, and
\* the contract holds borrowed-asset liquidity: the first is refused a borrow
\* with ExceedsCreditLimit, the second with InsufficientCollateral.
C17_Witness ==
    \E u \in Users, v \in Users :
        /\ has(positions, u)
        /\ positions[u].collateral = 0
        /\ ~has(positions, v)
        /\ balance[instance["UsdcToken"]][Contract] > 0
        /\ borrow(Env, u, u, 1).result = "ExceedsCreditLimit"
        /\ borrow(Env, v, v, 1).result = "InsufficientCollateral"
        /\ repay(Env, v, TRUE, v, 1).result = "NotInitialized"

\* C18: for every collateral c >= 0 and every ratio in 0..10000, borrow,
\* withdraw_collateral and get_available_credit compute the same limit L, with
\* L * 10000 <= c * ratio < (L + 1) * 10000 and so 0 <= L <= c.
C18_LimitRoundsDown ==
    limit_sample.limits # << >> =>
        LET c == limit_sample.collateral
            r == limit_sample.ltv_ratio
            L == limit_sample.limits.borrow
        IN  /\ limit_sample.limits.withdraw = L
            /\ limit_sample.limits.available = L
            /\ L * 10000 <= c * r
            /\ c * r < (L + 1) * 10000
            /\ L >= 0
            /\ L <= c

\* The limits computed for the contract's ratio on a collateral whose exact
\* share is no whole number: a positive limit, rounded down.
C18_Witness ==
    /\ limit_sample.limits # << >>
    /\ limit_sample.ltv_ratio = LtvDefault
    /\ limit_sample.limits.borrow > 0
    /\ (limit_sample.collateral * limit_sample.ltv_ratio) % 10000 # 0

\* Positions are stored only in a configured contract; before the
\* configuration no call of deposit, borrow, repay or withdraw succeeds,
\* stores a position or moves a token; with a position stored, borrow, repay
\* and withdraw never give NotInitialized (borrow never does at all), so the
\* token-address lookups never fail; and a user's full exit leaves the
\* position stored as {0, 0}.
StoredOnlyWhenConfigured ==
    /\ positions # << >> =>
        \E admin \in Users, b \in Tokens, t \in Tokens :
            instance = StoredConfig(admin, b, t)
    /\ \A s \in Users, u \in Users, a \in Amounts :
        LET d == deposit_collateral(Env, s, TRUE, u, a)
            b == borrow(Env, s, u, a)
            r == repay(Env, s, TRUE, u, a)
            w == withdraw_collateral(Env, s, u, a)
        IN  /\ instance = << >> =>
                /\ "Ok" \notin {d.result, b.result, r.result, w.result}
                /\ {d.env, b.env, r.env, w.env} = {Env}
            /\ b.result # "NotInitialized"
            /\ has(positions, u) =>
                "NotInitialized" \notin {r.result, w.result}
    /\ \A u \in DOMAIN positions :
        balance[instance["UsdcToken"]][u] >= positions[u].borrowed =>
            /\ has(ExitOf(Env, u).withdrawn.env.positions, u)
            /\ ExitOf(Env, u).withdrawn.env.positions[u].collateral = 0
            /\ ExitOf(Env, u).withdrawn.env.positions[u].borrowed = 0

\* A step deletes no stored position, and stores a position for a user who
\* had none only as that user's successful deposit.
StoredByDepositForGood ==
    \A u \in Users :
        /\ has(positions, u) => has(positions', u)
        /\ (~has(positions, u) /\ has(positions', u)) =>
            \E a \in PositiveAmounts :
                LET d == deposit_collateral(Env, u, TRUE, u, a)
                IN  /\ d.result = "Ok"
                    /\ positions' = d.env.positions
                    /\ balance' = d.env.balance

\* C19: a position is stored for a user only in a configured contract and
\* only by that user's successful deposit; once stored no step deletes it (it
\* stays as {0, 0} after a full exit); before initialize no call stores a
\* position or moves tokens; and the NotInitialized results of the
\* token-address lookups in borrow, repay and withdraw never occur.
C19_PositionExistence ==
    /\ []StoredOnlyWhenConfigured
    /\ [][StoredByDepositForGood]_vars

\* A user who has left with everything keeps a stored position {0, 0} and
\* holds its funds again, while the other user is a borrower.
C19_Witness ==
    \E u \in DOMAIN positions, v \in DOMAIN positions :
        /\ positions[u].collateral = 0
        /\ positions[u].borrowed = 0
        /\ positions[v].borrowed > 0
        /\ balance[instance["BenjiToken"]][u] >= UserFunds

====
